---- MODULE Spec2Model ----
(***************************************************************************)
(* EU ETS & FuelEU Maritime emissions calculator (src/emissions1.py).      *)
(*                                                                         *)
(* The Streamlit script is re-executed from top to bottom on every user    *)
(* interaction.  The state that survives a re-execution is the session     *)
(* state (emission_factors, fuel_inputs) and the widget values; everything *)
(* computed under the "Calculate Emissions" button exists only in the run  *)
(* in which the button was clicked.                                        *)
(*                                                                         *)
(* Numbers are Python floats in the source.  They are modelled as exact    *)
(* decimal fixed-point integers:                                           *)
(*   mass            kg            (1e-3 t)                                *)
(*   LCV             1e-4 MJ/g                                             *)
(*   GHG/CO2 factor  0.01 gCO2e/MJ                                         *)
(*   energy (MJ)     0.1 MJ        (= LCV unit * mass unit * 1e6)          *)
(*   GHG/CO2 mass    1e-9 t        (= energy unit * factor unit / 1e6)     *)
(*   reported mass, GHG, CO2, EUA  0.01 t   (round(x, 2))                  *)
(*   reported energy               1e-4 TJ  (round(x, 4))                  *)
(*   GHG target      1e-4 gCO2e/MJ                                         *)
(* Products that exceed 32 bits are kept as pairs <<hi, lo>> that stand    *)
(* for hi * Base + lo with 0 <= lo < Base.                                 *)
(***************************************************************************)
EXTENDS Integers, Sequences, FiniteSets, TLC

VARIABLES emission_factors, bf1_lcv, bf1_ghg_wtw, bf1_co2_ttw,
          fuel_inputs, ghg_target, distance, cargo_carried,
          view, locals, results, totals, ghg_intensity, compliance_gap,
          compliance, penalty_factor, eua_cost,
          fuel_efficiency, co2_efficiency, cargo_efficiency, error,
          edits,
          edit_order,   \* history: the fuels in the order the user first
                        \* changed their consumption
          \* The voyage form of emissions.py: five text fields as submitted,
          \* what the run shows, and what it builds.
          imo_number, departure_date, departure_time, arrival_date,
          arrival_time, form_view, errors, voyage_data, offered

inputVars == <<emission_factors, bf1_lcv, bf1_ghg_wtw, bf1_co2_ttw,
               fuel_inputs, ghg_target, distance, cargo_carried>>

outputVars == <<view, locals, results, totals, ghg_intensity, compliance_gap,
                compliance, penalty_factor, eua_cost,
                fuel_efficiency, co2_efficiency, cargo_efficiency, error>>

formVars == <<imo_number, departure_date, departure_time, arrival_date,
              arrival_time, form_view, errors, voyage_data, offered>>

vars == <<inputVars, outputVars, edits, edit_order, formVars>>

(***************************************************************************)
(* Bounds of the exploration.                                              *)
(***************************************************************************)
MaxEdits == 2

\* Values a user types into a consumption widget (kg): nothing, 1 kg, 6 kg
\* and 100 t.  No sum of three of them lies exactly halfway between two
\* reported values, where the result of round() on a binary float depends
\* on the representation error of the operand.
Masses == {0, 1, 6, 100000}

\* Fuels whose consumption widgets are edited.
ConsumedFuels == {"HFO", "Biofuel 1", "Biofuel 2"}

\* Values typed into the GHG target, distance and cargo widgets.
GhgTargets == {893368, 1000000}
Distances == {1873, 0}
Cargos == {13612, 0}

\* Fuels whose entry may be missing from the factor table handed to the
\* calculation loop.
MissingFuels == {"HFO", "Biofuel 2"}

\* Values typed into the Biofuel 1 parameter widgets.
Bf1Lcvs == {370, 0}
Bf1Ghgs == {1628, -1000}
Bf1Co2s == {7659, 0}

(***************************************************************************)
(* Arithmetic on values wider than 32 bits.                                *)
(***************************************************************************)
Base == 10000

\* x * y for x >= 0, as a pair.
BigMul(x, y) ==
    LET xh == x \div Base
        xl == x % Base
    IN  <<xh * y + ((xl * y) \div Base), (xl * y) % Base>>

\* p - q on pairs.
BigSub(p, q) ==
    IF p[2] >= q[2] THEN <<p[1] - q[1], p[2] - q[2]>>
                    ELSE <<p[1] - q[1] - 1, p[2] + Base - q[2]>>

\* p * k for a small k >= 0.
BigScale(p, k) == <<p[1] * k + ((p[2] * k) \div Base), (p[2] * k) % Base>>

\* p + q on pairs.
BigAdd(p, q) ==
    IF p[2] + q[2] < Base THEN <<p[1] + q[1], p[2] + q[2]>>
                          ELSE <<p[1] + q[1] + 1, p[2] + q[2] - Base>>

\* p divided by a small k > 0: quotient pair and remainder.
BigDivSmall(p, k) ==
    LET r1 == p[1] % k
    IN  [q |-> <<p[1] \div k, (r1 * Base + p[2]) \div k>>,
         r |-> (r1 * Base + p[2]) % k]

BigIsPositive(p) == p[1] > 0 \/ (p[1] = 0 /\ p[2] > 0)

BigIsZero(p) == p[1] = 0 /\ p[2] = 0

\* Python's round(): the nearest multiple of d, an exact tie going to the
\* even neighbour.
RoundDiv(n, d) ==
    LET q == n \div d
        r == n % d
    IN  IF 2 * r > d THEN q + 1
        ELSE IF 2 * r < d THEN q
        ELSE IF q % 2 = 0 THEN q ELSE q + 1

\* round(x, 2) of a GHG/CO2 mass held as a pair in 1e-9 t: the nearest
\* multiple of 1e7 = 1000 * Base.
RoundBig(p) ==
    LET q == p[1] \div 1000
        r == (p[1] % 1000) * Base + p[2]
        d == 1000 * Base
    IN  IF 2 * r > d THEN q + 1
        ELSE IF 2 * r < d THEN q
        ELSE IF q % 2 = 0 THEN q ELSE q + 1

\* A value that a run may or may not compute: absent, or present.
Absent == <<>>
Some(v) == <<v>>

(***************************************************************************)
(* Emission factor table and fuel list.                                    *)
(***************************************************************************)
FUEL_LIST == <<"LFO <80 CST", "LFO> 80 CST", "HFO", "MDO/MGO", "LPG (P)",
               "LPG (B)", "LNG Otto MS", "LNG Otto SS", "LNG Diesel SS",
               "LBSI", "Biofuel 1", "Biofuel 2", "Biofuel 3">>

Fuels == {FUEL_LIST[i] : i \in 1..Len(FUEL_LIST)}

Factor(lcv, ghg, co2) ==
    [LCV_MJ_g |-> lcv, GHG_WtW_gCO2e_MJ |-> ghg, CO2_TtW_gCO2e_MJ |-> co2]

DefaultEmissionFactors ==
    ("LFO <80 CST"   :> Factor(410, 9139, 7685)) @@
    ("LFO> 80 CST"   :> Factor(405, 9174, 7689)) @@
    ("HFO"           :> Factor(405, 9174, 7689)) @@
    ("MDO/MGO"       :> Factor(427, 9077, 7508)) @@
    ("LPG (P)"       :> Factor(460, 7421, 6522)) @@
    ("LPG (B)"       :> Factor(460, 7486, 6587)) @@
    ("LNG Otto MS"   :> Factor(491, 8920, 5427)) @@
    ("LNG Otto SS"   :> Factor(491, 8287, 5506)) @@
    ("LNG Diesel SS" :> Factor(491, 7608, 5590)) @@
    ("LBSI"          :> Factor(491, 8694, 5455)) @@
    ("Biofuel 1"     :> Factor(370, 1628, 7659)) @@
    ("Biofuel 2"     :> Factor(0, 0, 0)) @@
    ("Biofuel 3"     :> Factor(0, 0, 0))

ConsumptionFields ==
    {"ME_Consumption_Sailing", "AE_Consumption_Sailing",
     "Other_Consumption_Sailing", "ME_Consumption_Port",
     "AE_Consumption_Port", "Other_Consumption_Port"}

DefaultFuelInputs ==
    [fuel \in Fuels |-> [field \in ConsumptionFields |-> 0]]

(***************************************************************************)
(* The formula chain.                                                      *)
(***************************************************************************)
\* Variant: the energy is computed from the mass as rounded for the report.
calc_energy_mt_rounded_mass(fuel_mass_ton, lcv_mj_g) ==
    lcv_mj_g * (RoundDiv(fuel_mass_ton, 10) * 10)

\* energy in MJ from fuel mass and LCV
calc_energy_mt(fuel_mass_ton, lcv_mj_g) == lcv_mj_g * fuel_mass_ton

\* Variant: the GHG formula is fed the terajoule figure.
calc_ghg_mt_from_tj(total_energy_mj, ghg_ef_wtw) ==
    BigMul(total_energy_mj \div 1000000, ghg_ef_wtw)

\* GHG emissions in MT from energy and emission factor
calc_ghg_mt(total_energy_mj, ghg_ef_wtw) == BigMul(total_energy_mj, ghg_ef_wtw)

\* CO2 emissions in MT from energy and emission factor
calc_co2_mt(total_energy_mj, co2_ef_ttw) == BigMul(total_energy_mj, co2_ef_ttw)

\* Variant: a 40 % phase-in share applied to the allowance count.
calc_eua_phase_in(co2_mt) == BigDivSmall(BigScale(co2_mt, 4), 10).q

\* EUAs (1 EUA per 1 ton CO2)
calc_eua(co2_mt) == co2_mt

SailingMass(vals) ==
    vals["ME_Consumption_Sailing"] + vals["AE_Consumption_Sailing"]
        + vals["Other_Consumption_Sailing"]

\* Variant: the third port term reads the sailing field.
PortMass_other_sailing(vals) ==
    vals["ME_Consumption_Port"] + vals["AE_Consumption_Port"]
        + vals["Other_Consumption_Sailing"]

PortMass(vals) ==
    vals["ME_Consumption_Port"] + vals["AE_Consumption_Port"]
        + vals["Other_Consumption_Port"]

\* Variant: a fuel is skipped as soon as one of the two phases is empty.
SkipFuel_either(sailing_mass, port_mass) == sailing_mass = 0 \/ port_mass = 0

\* "Skip if no consumption"
SkipFuel(sailing_mass, port_mass) == sailing_mass = 0 /\ port_mass = 0

\* The loop body's local variables for one fuel.
FuelLocals(fuel, vals, factor) ==
    LET sailing_mass == SailingMass(vals)
        port_mass == PortMass(vals)
        sailing_energy_mj == calc_energy_mt(sailing_mass, factor.LCV_MJ_g)
        port_energy_mj == calc_energy_mt(port_mass, factor.LCV_MJ_g)
        sailing_co2_mt == calc_co2_mt(sailing_energy_mj, factor.CO2_TtW_gCO2e_MJ)
        port_co2_mt == calc_co2_mt(port_energy_mj, factor.CO2_TtW_gCO2e_MJ)
    IN  [fuel |-> fuel,
         sailing_mass |-> sailing_mass,
         port_mass |-> port_mass,
         sailing_energy_mj |-> sailing_energy_mj,
         port_energy_mj |-> port_energy_mj,
         sailing_ghg_mt |-> calc_ghg_mt(sailing_energy_mj, factor.GHG_WtW_gCO2e_MJ),
         port_ghg_mt |-> calc_ghg_mt(port_energy_mj, factor.GHG_WtW_gCO2e_MJ),
         sailing_co2_mt |-> sailing_co2_mt,
         port_co2_mt |-> port_co2_mt,
         sailing_eua |-> calc_eua(sailing_co2_mt),
         port_eua |-> calc_eua(port_co2_mt)]

\* The row appended to results: the locals rounded for the report.
ResultRow(l) ==
    ("Fuel Type"            :> l.fuel) @@
    ("Sailing Fuel (MT)"    :> RoundDiv(l.sailing_mass, 10)) @@
    ("Port Fuel (MT)"       :> RoundDiv(l.port_mass, 10)) @@
    ("Sailing Energy (TJ)"  :> RoundDiv(l.sailing_energy_mj, 1000)) @@
    ("Port Energy (TJ)"     :> RoundDiv(l.port_energy_mj, 1000)) @@
    ("Sailing GHG WtW (MT)" :> RoundBig(l.sailing_ghg_mt)) @@
    ("Port GHG WtW (MT)"    :> RoundBig(l.port_ghg_mt)) @@
    ("Sailing CO2 TtW (MT)" :> RoundBig(l.sailing_co2_mt)) @@
    ("Port CO2 TtW (MT)"    :> RoundBig(l.port_co2_mt)) @@
    ("Sailing EUAs"         :> RoundBig(l.sailing_eua)) @@
    ("Port EUAs"            :> RoundBig(l.port_eua))

RECURSIVE KeysNotIn(_, _, _)
KeysNotIn(i, keys, seen) ==
    IF i > Len(keys) THEN <<>>
    ELSE (IF \E j \in 1..Len(seen) : seen[j] = keys[i] THEN <<>>
             ELSE <<keys[i]>>)
         \o KeysNotIn(i + 1, keys, seen)

\* Variant: the map iterates the fuels the user edited first, in the order
\* of their first edit, then the others.
InputKeys_edited_first == edit_order \o KeysNotIn(1, FUEL_LIST, edit_order)

\* fuel_inputs.items(): the keys of a dict come in insertion order, which is
\* that of the comprehension over FUEL_LIST; assigning to an existing key
\* keeps its position.
InputKeys == FUEL_LIST

\* Variant: the factor is looked up after the "no consumption" skip.
FactorLookedUp_after_skip(sailing_mass, port_mass) ==
    ~(sailing_mass = 0 /\ port_mass = 0)

\* factor = emission_factors[fuel] is the first statement of the loop body:
\* it is executed for every fuel, whatever its consumption.
FactorLookedUp(sailing_mass, port_mass) == TRUE

\* The lookup raises KeyError for a fuel that has no entry in the table.
LoopRaisesKeyError(inputs, factors) ==
    \E i \in 1..Len(InputKeys) :
        /\ FactorLookedUp(SailingMass(inputs[InputKeys[i]]),
                          PortMass(inputs[InputKeys[i]]))
        /\ InputKeys[i] \notin DOMAIN factors

\* for fuel, vals in fuel_inputs.items(): the locals of the fuels that are
\* not skipped, in iteration order, from position i on.
RECURSIVE CalcLoop(_, _, _)
CalcLoop(i, inputs, factors) ==
    IF i > Len(InputKeys) THEN <<>>
    ELSE LET fuel == InputKeys[i]
             vals == inputs[fuel]
         IN  (IF SkipFuel(SailingMass(vals), PortMass(vals))
                 THEN <<>>
                 ELSE <<FuelLocals(fuel, vals, factors[fuel])>>)
             \o CalcLoop(i + 1, inputs, factors)

\* result_df[col].sum()
RECURSIVE SumColumn(_, _)
SumColumn(rows, col) ==
    IF rows = <<>> THEN 0
    ELSE Head(rows)[col] + SumColumn(Tail(rows), col)

\* Variant: the port allowances are left out of the grand total.
TotalEuas_sailing_only(result_df) == SumColumn(result_df, "Sailing EUAs")

\* result_df["Sailing EUAs"].sum() + result_df["Port EUAs"].sum()
TotalEuas(result_df) ==
    SumColumn(result_df, "Sailing EUAs") + SumColumn(result_df, "Port EUAs")

Totals(result_df) ==
    ("Total Sailing Fuel (MT)"     :> SumColumn(result_df, "Sailing Fuel (MT)")) @@
    ("Total Port Fuel (MT)"        :> SumColumn(result_df, "Port Fuel (MT)")) @@
    ("Total Sailing Energy (TJ)"   :> SumColumn(result_df, "Sailing Energy (TJ)")) @@
    ("Total Port Energy (TJ)"      :> SumColumn(result_df, "Port Energy (TJ)")) @@
    ("Total Sailing GHG (MT)"      :> SumColumn(result_df, "Sailing GHG WtW (MT)")) @@
    ("Total Port GHG (MT)"         :> SumColumn(result_df, "Port GHG WtW (MT)")) @@
    ("Total Sailing CO2 (MT)"      :> SumColumn(result_df, "Sailing CO2 TtW (MT)")) @@
    ("Total Port CO2 (MT)"         :> SumColumn(result_df, "Port CO2 TtW (MT)")) @@
    ("Total Sailing EUAs"          :> SumColumn(result_df, "Sailing EUAs")) @@
    ("Total Port EUAs"             :> SumColumn(result_df, "Port EUAs")) @@
    ("Total EUAs (Sailing + Port)" :> TotalEuas(result_df))

TotalEnergy(t) == t["Total Sailing Energy (TJ)"] + t["Total Port Energy (TJ)"]

TotalGhg(t) == t["Total Sailing GHG (MT)"] + t["Total Port GHG (MT)"]

TotalFuel(t) == t["Total Sailing Fuel (MT)"] + t["Total Port Fuel (MT)"]

TotalCo2(t) == t["Total Sailing CO2 (MT)"] + t["Total Port CO2 (MT)"]

\* if total_energy > 0
IntensityDefined(total_energy) == total_energy > 0

\* (total_ghg * 1e6) / (total_energy * 1e6), as the fraction num / den in
\* gCO2e/MJ (total_ghg in 0.01 t is 1e4 g, total_energy in 1e-4 TJ is 100 MJ).
GhgIntensity(total_ghg, total_energy) ==
    [num |-> total_ghg * 100, den |-> total_energy]

\* ghg_intensity - ghg_target, as the fraction num / (den * Base) in
\* gCO2e/MJ with num held as a pair.
ComplianceGap(intensity, target) ==
    [num |-> BigSub(<<intensity.num, 0>>, BigMul(target, intensity.den)),
     den |-> intensity.den]

\* Variant: the verdict is compliant only strictly below the target.
IsCompliant_strict(gap) == ~BigIsPositive(gap.num) /\ ~BigIsZero(gap.num)

\* if compliance_gap <= 0
IsCompliant(gap) == ~BigIsPositive(gap.num)

PenaltyRate == 2400

EuaPrice == 85

\* Variant: the energy is scaled to MJ with 1e5 instead of 1e6.
PenaltyFactor_unit_slip(gap, total_energy) ==
    BigScale(gap.num, (total_energy * PenaltyRate) \div (gap.den * 1000))

\* compliance_gap * total_energy * 1e6 * 2400 / 1e6, in 1e-6 EUR.  The gap's
\* denominator is the total energy, so the energy cancels and the factor
\* (total_energy * 2400) / (den * 100) is the integer 24.
PenaltyFactor(gap, total_energy) ==
    BigScale(gap.num, (total_energy * PenaltyRate) \div (gap.den * 100))

\* Variant: only a negative denominator suppresses the metric.
EfficiencyDefined_non_negative(denominator) == denominator >= 0

\* if distance > 0: / if cargo_carried > 0:
EfficiencyDefined(denominator) == denominator > 0

\* x / y * 1000 for x in 0.01 t: kg per unit of y, as a fraction.
PerUnit(x, y) == [num |-> x * 10, den |-> y]

(***************************************************************************)
(* The voyage form (emissions.py).  A text is a sequence of one-character  *)
(* strings.                                                                *)
(***************************************************************************)
DigitChars == <<"0", "1", "2", "3", "4", "5", "6", "7", "8", "9">>

IsDigitChar(c) == \E i \in 1..10 : DigitChars[i] = c

DigitValue(c) == (CHOOSE i \in 1..10 : DigitChars[i] = c) - 1

\* str.isdigit(): not empty and every character a digit.
IsDigit(text) ==
    /\ text # <<>>
    /\ \A i \in 1..Len(text) : IsDigitChar(text[i])

RECURSIVE NumberOf(_)
NumberOf(text) ==
    IF text = <<>> THEN 0
    ELSE NumberOf(SubSeq(text, 1, Len(text) - 1)) * 10
            + DigitValue(text[Len(text)])

validate_imo_number(imo) == IsDigit(imo) /\ Len(imo) = 7

\* The directives of strptime, as the regular expressions of _strptime.py:
\* %d is 3[0-1]|[1-2]\d|0[1-9]|[1-9]| [1-9], %m is 1[0-2]|0[1-9]|[1-9],
\* %Y is \d\d\d\d, %H is 2[0-3]|[0-1]\d|\d, %M is [0-5]\d|\d.
MatchesDay(text) ==
    \/ Len(text) = 2 /\ IsDigit(text) /\ NumberOf(text) \in 1..31
    \/ Len(text) = 1 /\ IsDigit(text) /\ NumberOf(text) \in 1..9
    \/ Len(text) = 2 /\ text[1] = " " /\ IsDigitChar(text[2])
           /\ DigitValue(text[2]) \in 1..9

DayOf(text) ==
    IF text[1] = " " THEN DigitValue(text[2]) ELSE NumberOf(text)

MatchesMonth(text) ==
    \/ Len(text) = 2 /\ IsDigit(text) /\ NumberOf(text) \in 1..12
    \/ Len(text) = 1 /\ IsDigit(text) /\ NumberOf(text) \in 1..9

MatchesYear(text) == Len(text) = 4 /\ IsDigit(text)

MatchesHour(text) ==
    \/ Len(text) = 2 /\ IsDigit(text) /\ NumberOf(text) \in 0..23
    \/ Len(text) = 1 /\ IsDigit(text)

MatchesMinute(text) ==
    \/ Len(text) = 2 /\ IsDigit(text) /\ NumberOf(text) \in 0..59
    \/ Len(text) = 1 /\ IsDigit(text)

IsLeapYear(year) ==
    year % 4 = 0 /\ (year % 100 # 0 \/ year % 400 = 0)

DaysInMonth(year, month) ==
    IF month = 2 THEN (IF IsLeapYear(year) THEN 29 ELSE 28)
    ELSE IF month \in {4, 6, 9, 11} THEN 30 ELSE 31

\* The positions of a separator in a text.
PositionsOf(text, sep) == {i \in 1..Len(text) : text[i] = sep}

MinOf(set) == CHOOSE x \in set : \A y \in set : x <= y

MaxOf(set) == CHOOSE x \in set : \A y \in set : x >= y

\* datetime.strptime(date_str, "%d/%m/%Y") does not raise: the whole text
\* matches the three directives and they form a date of the calendar.
validate_date(date_str) ==
    LET slashes == PositionsOf(date_str, "/")
    IN  /\ Cardinality(slashes) = 2
        /\ LET day == SubSeq(date_str, 1, MinOf(slashes) - 1)
               month == SubSeq(date_str, MinOf(slashes) + 1, MaxOf(slashes) - 1)
               year == SubSeq(date_str, MaxOf(slashes) + 1, Len(date_str))
           IN  /\ MatchesDay(day)
               /\ MatchesMonth(month)
               /\ MatchesYear(year)
               /\ NumberOf(year) >= 1
               /\ DayOf(day) <= DaysInMonth(NumberOf(year), NumberOf(month))

\* datetime.strptime(time_str, "%H:%M") does not raise.
validate_time(time_str) ==
    LET colons == PositionsOf(time_str, ":")
    IN  /\ Cardinality(colons) = 1
        /\ MatchesHour(SubSeq(time_str, 1, MinOf(colons) - 1))
        /\ MatchesMinute(SubSeq(time_str, MinOf(colons) + 1, Len(time_str)))

\* The error list built after "Submit & Review"; an empty date or time is
\* not validated.
FormErrors(imo, dep_date, arr_date, dep_time, arr_time) ==
    (IF ~validate_imo_number(imo)
        THEN <<"IMO No. must be exactly 7 digits.">> ELSE <<>>)
    \o (IF dep_date # <<>> /\ ~validate_date(dep_date)
           THEN <<"Departure date format must be dd/mm/yyyy.">> ELSE <<>>)
    \o (IF arr_date # <<>> /\ ~validate_date(arr_date)
           THEN <<"Arrival date format must be dd/mm/yyyy.">> ELSE <<>>)
    \o (IF dep_time # <<>> /\ ~validate_time(dep_time)
           THEN <<"Departure time format must be hh:mm.">> ELSE <<>>)
    \o (IF arr_time # <<>> /\ ~validate_time(arr_time)
           THEN <<"Arrival time format must be hh:mm.">> ELSE <<>>)

\* Texts typed into the form.
ImoNumbers == {<<"1", "2", "3", "4", "5", "6", "7">>,
               <<"1", "2", "3", "4", "5", "6">>,
               <<"1", "2", "3", "4", "5", "a", "7">>,
               <<>>}

DepartureDates == {<<>>,
                   <<"0", "1", "/", "0", "2", "/", "2", "0", "2", "5">>,
                   <<"1", "/", "2", "/", "2", "0", "2", "5">>,
                   <<"3", "1", "/", "0", "2", "/", "2", "0", "2", "5">>,
                   <<"2", "0", "2", "5", "-", "0", "2", "-", "0", "1">>}

ArrivalDates == {<<>>,
                 <<"2", "9", "/", "0", "2", "/", "2", "0", "2", "4">>,
                 <<"2", "9", "/", "0", "2", "/", "2", "0", "2", "5">>}

DepartureTimes == {<<>>,
                   <<"1", "1", ":", "0", "0">>,
                   <<"9", ":", "5">>,
                   <<"2", "5", ":", "0", "0">>}

ArrivalTimes == {<<>>,
                 <<"2", "3", ":", "5", "9">>,
                 <<"1", "1", "0", "0">>}

(***************************************************************************)
(* State machine.                                                          *)
(***************************************************************************)
\* What a run shows when the Calculate button was not clicked in it.
NoResults ==
    /\ view' = "info"
    /\ locals' = <<>>
    /\ results' = <<>>
    /\ totals' = Absent
    /\ ghg_intensity' = Absent
    /\ compliance_gap' = Absent
    /\ compliance' = "none"
    /\ penalty_factor' = Absent
    /\ eua_cost' = Absent
    /\ fuel_efficiency' = Absent
    /\ co2_efficiency' = Absent
    /\ cargo_efficiency' = Absent
    /\ error' = "none"

\* The voyage form before its first submission.
InitForm ==
    /\ imo_number = <<>>
    /\ departure_date = <<>>
    /\ departure_time = <<>>
    /\ arrival_date = <<>>
    /\ arrival_time = <<>>
    /\ form_view = "form"
    /\ errors = <<>>
    /\ voyage_data = Absent
    /\ offered = {}

\* Everything but the factor table.
InitSession ==
    /\ bf1_lcv = DefaultEmissionFactors["Biofuel 1"].LCV_MJ_g
    /\ bf1_ghg_wtw = DefaultEmissionFactors["Biofuel 1"].GHG_WtW_gCO2e_MJ
    /\ bf1_co2_ttw = DefaultEmissionFactors["Biofuel 1"].CO2_TtW_gCO2e_MJ
    /\ fuel_inputs = DefaultFuelInputs
    /\ ghg_target = 893368
    /\ distance = 1873
    /\ cargo_carried = 13612
    /\ view = "info"
    /\ locals = <<>>
    /\ results = <<>>
    /\ totals = Absent
    /\ ghg_intensity = Absent
    /\ compliance_gap = Absent
    /\ compliance = "none"
    /\ penalty_factor = Absent
    /\ eua_cost = Absent
    /\ fuel_efficiency = Absent
    /\ co2_efficiency = Absent
    /\ cargo_efficiency = Absent
    /\ error = "none"
    /\ edits = 0
    /\ edit_order = <<>>
    /\ InitForm

Init ==
    /\ emission_factors = DefaultEmissionFactors
    /\ InitSession

\* The user changes one consumption widget; the script reruns and stores the
\* widget values in fuel_inputs.
SetConsumption(fuel, field, v) ==
    /\ edits < MaxEdits
    /\ v # fuel_inputs[fuel][field]
    /\ fuel_inputs' = [fuel_inputs EXCEPT ![fuel][field] = v]
    /\ edits' = edits + 1
    /\ edit_order' = IF \E i \in 1..Len(edit_order) : edit_order[i] = fuel
                         THEN edit_order
                         ELSE Append(edit_order, fuel)
    /\ NoResults
    /\ UNCHANGED <<emission_factors, bf1_lcv, bf1_ghg_wtw, bf1_co2_ttw,
                   ghg_target, distance, cargo_carried, formVars>>

SetGhgTarget(v) ==
    /\ edits < MaxEdits
    /\ v # ghg_target
    /\ ghg_target' = v
    /\ edits' = edits + 1
    /\ NoResults
    /\ UNCHANGED <<edit_order, formVars>>
    /\ UNCHANGED <<emission_factors, bf1_lcv, bf1_ghg_wtw, bf1_co2_ttw,
                   fuel_inputs, distance, cargo_carried>>

SetDistance(v) ==
    /\ edits < MaxEdits
    /\ v # distance
    /\ distance' = v
    /\ edits' = edits + 1
    /\ NoResults
    /\ UNCHANGED <<edit_order, formVars>>
    /\ UNCHANGED <<emission_factors, bf1_lcv, bf1_ghg_wtw, bf1_co2_ttw,
                   fuel_inputs, ghg_target, cargo_carried>>

SetCargoCarried(v) ==
    /\ edits < MaxEdits
    /\ v # cargo_carried
    /\ cargo_carried' = v
    /\ edits' = edits + 1
    /\ NoResults
    /\ UNCHANGED <<edit_order, formVars>>
    /\ UNCHANGED <<emission_factors, bf1_lcv, bf1_ghg_wtw, bf1_co2_ttw,
                   fuel_inputs, ghg_target, distance>>

\* Variant: the LCV widget is bound to the table entry, no click needed.
EditBiofuel1Lcv_writes_through(v) ==
    /\ edits < MaxEdits
    /\ v # bf1_lcv
    /\ bf1_lcv' = v
    /\ emission_factors' =
           [emission_factors EXCEPT !["Biofuel 1"].LCV_MJ_g = v]
    /\ edits' = edits + 1
    /\ NoResults
    /\ UNCHANGED <<bf1_ghg_wtw, bf1_co2_ttw, fuel_inputs, ghg_target,
                   distance, cargo_carried, edit_order, formVars>>

\* The user changes the Biofuel 1 parameter widgets in the sidebar.
EditBiofuel1Lcv(v) ==
    /\ edits < MaxEdits
    /\ v # bf1_lcv
    /\ bf1_lcv' = v
    /\ edits' = edits + 1
    /\ NoResults
    /\ UNCHANGED <<edit_order, formVars>>
    /\ UNCHANGED <<emission_factors, bf1_ghg_wtw, bf1_co2_ttw,
                   fuel_inputs, ghg_target, distance, cargo_carried>>

EditBiofuel1Ghg(v) ==
    /\ edits < MaxEdits
    /\ v # bf1_ghg_wtw
    /\ bf1_ghg_wtw' = v
    /\ edits' = edits + 1
    /\ NoResults
    /\ UNCHANGED <<edit_order, formVars>>
    /\ UNCHANGED <<emission_factors, bf1_lcv, bf1_co2_ttw,
                   fuel_inputs, ghg_target, distance, cargo_carried>>

EditBiofuel1Co2(v) ==
    /\ edits < MaxEdits
    /\ v # bf1_co2_ttw
    /\ bf1_co2_ttw' = v
    /\ edits' = edits + 1
    /\ NoResults
    /\ UNCHANGED <<edit_order, formVars>>
    /\ UNCHANGED <<emission_factors, bf1_lcv, bf1_ghg_wtw,
                   fuel_inputs, ghg_target, distance, cargo_carried>>

\* The "Update Biofuel 1" button: commit the widget values, then rerun.
UpdateBiofuel1 ==
    /\ emission_factors' =
           [emission_factors EXCEPT !["Biofuel 1"] =
                Factor(bf1_lcv, bf1_ghg_wtw, bf1_co2_ttw)]
    /\ NoResults
    /\ UNCHANGED <<edit_order, formVars>>
    /\ UNCHANGED <<bf1_lcv, bf1_ghg_wtw, bf1_co2_ttw, fuel_inputs,
                   ghg_target, distance, cargo_carried, edits>>

\* The loop ran to its end: results, totals and the analysis blocks.
CalculationCompleted ==
    /\ error' = "none"
    /\ locals' = CalcLoop(1, fuel_inputs, emission_factors)
    /\ results' = [i \in 1..Len(locals') |-> ResultRow(locals'[i])]
    /\ IF results' # <<>>
          THEN /\ view' = "results"
               /\ totals' = Some(Totals(results'))
               /\ ghg_intensity' =
                      IF IntensityDefined(TotalEnergy(totals'[1]))
                         THEN Some(GhgIntensity(TotalGhg(totals'[1]),
                                                TotalEnergy(totals'[1])))
                         ELSE Absent
               /\ compliance_gap' =
                      IF IntensityDefined(TotalEnergy(totals'[1]))
                         THEN Some(ComplianceGap(ghg_intensity'[1], ghg_target))
                         ELSE Absent
               /\ compliance' =
                      IF compliance_gap' = Absent THEN "none"
                      ELSE IF IsCompliant(compliance_gap'[1]) THEN "compliant"
                      ELSE "non-compliant"
               /\ penalty_factor' =
                      IF compliance' = "non-compliant"
                         THEN Some(PenaltyFactor(compliance_gap'[1],
                                                 TotalEnergy(totals'[1])))
                         ELSE Absent
               /\ eua_cost' =
                      Some(totals'[1]["Total EUAs (Sailing + Port)"] * EuaPrice)
               /\ fuel_efficiency' =
                      IF EfficiencyDefined(distance)
                         THEN Some(PerUnit(TotalFuel(totals'[1]), distance))
                         ELSE Absent
               /\ co2_efficiency' =
                      IF EfficiencyDefined(distance)
                         THEN Some(PerUnit(TotalCo2(totals'[1]), distance))
                         ELSE Absent
               /\ cargo_efficiency' =
                      IF EfficiencyDefined(cargo_carried)
                         THEN Some(PerUnit(TotalCo2(totals'[1]), cargo_carried))
                         ELSE Absent
          ELSE /\ view' = "warning"
               /\ totals' = Absent
               /\ ghg_intensity' = Absent
               /\ compliance_gap' = Absent
               /\ compliance' = "none"
               /\ penalty_factor' = Absent
               /\ eua_cost' = Absent
               /\ fuel_efficiency' = Absent
               /\ co2_efficiency' = Absent
               /\ cargo_efficiency' = Absent

\* The lookup raised: the run stops with the exception shown, nothing
\* is computed.
CalculationAborted ==
    /\ error' = "KeyError"
    /\ view' = "exception"
    /\ locals' = <<>>
    /\ results' = <<>>
    /\ totals' = Absent
    /\ ghg_intensity' = Absent
    /\ compliance_gap' = Absent
    /\ compliance' = "none"
    /\ penalty_factor' = Absent
    /\ eua_cost' = Absent
    /\ fuel_efficiency' = Absent
    /\ co2_efficiency' = Absent
    /\ cargo_efficiency' = Absent

\* Variant: the calculation writes back the Biofuel 1 entry it read.
CalculationFrame_writes_table ==
    /\ emission_factors' =
           [emission_factors EXCEPT !["Biofuel 1"] = Factor(0, 0, 0)]
    /\ UNCHANGED <<bf1_lcv, bf1_ghg_wtw, bf1_co2_ttw, fuel_inputs,
                   ghg_target, distance, cargo_carried, edits, edit_order,
                   formVars>>

\* The calculation only reads the session state and the widget values.
CalculationFrame == UNCHANGED <<inputVars, edits, edit_order, formVars>>

\* The "Calculate Emissions" button.
CalculateEmissions ==
    /\ IF LoopRaisesKeyError(fuel_inputs, emission_factors)
          THEN CalculationAborted
          ELSE CalculationCompleted
    /\ CalculationFrame

Next ==
    \/ \E fuel \in ConsumedFuels, field \in ConsumptionFields, v \in Masses :
           SetConsumption(fuel, field, v)
    \/ \E v \in GhgTargets : SetGhgTarget(v)
    \/ \E v \in Distances : SetDistance(v)
    \/ \E v \in Cargos : SetCargoCarried(v)
    \/ \E v \in Bf1Lcvs : EditBiofuel1Lcv(v)
    \/ \E v \in Bf1Ghgs : EditBiofuel1Ghg(v)
    \/ \E v \in Bf1Co2s : EditBiofuel1Co2(v)
    \/ UpdateBiofuel1
    \/ CalculateEmissions

Spec == Init /\ [][Next]_vars

(***************************************************************************)
(* The calculation loop as a function of its two inputs: the consumption   *)
(* map and a factor table that may lack entries.                           *)
(***************************************************************************)
InitLoop ==
    /\ \E missing \in SUBSET MissingFuels :
           emission_factors =
               [fuel \in Fuels \ missing |-> DefaultEmissionFactors[fuel]]
    /\ InitSession

NextLoop ==
    \/ \E fuel \in ConsumedFuels, field \in ConsumptionFields, v \in Masses :
           SetConsumption(fuel, field, v)
    \/ CalculateEmissions

LoopSpec == InitLoop /\ [][NextLoop]_vars

(***************************************************************************)
(* The voyage form.  The fields of a form reach the script only in the run *)
(* started by its submit button.                                           *)
(***************************************************************************)
\* "Submit & Review" with the given texts in the five validated fields.
SubmitForm(imo, dep_date, dep_time, arr_date, arr_time) ==
    /\ imo_number' = imo
    /\ departure_date' = dep_date
    /\ departure_time' = dep_time
    /\ arrival_date' = arr_date
    /\ arrival_time' = arr_time
    /\ errors' = FormErrors(imo, dep_date, arr_date, dep_time, arr_time)
    /\ IF errors' # <<>>
          THEN /\ form_view' = "errors"
               /\ voyage_data' = Absent
               /\ offered' = {}
          ELSE /\ form_view' = "captured"
               /\ voyage_data' = Some([imo_number |-> imo,
                                       departure_date |-> dep_date,
                                       departure_time |-> dep_time,
                                       arrival_date |-> arr_date,
                                       arrival_time |-> arr_time])
               /\ offered' = {"Download JSON", "Download CSV"}
    /\ UNCHANGED <<inputVars, outputVars, edits, edit_order>>

\* A click on a download button reruns the script with submitted = False:
\* the form alone is shown again.
Download(button) ==
    /\ button \in offered
    /\ form_view' = "form"
    /\ errors' = <<>>
    /\ voyage_data' = Absent
    /\ offered' = {}
    /\ UNCHANGED <<imo_number, departure_date, departure_time, arrival_date,
                   arrival_time>>
    /\ UNCHANGED <<inputVars, outputVars, edits, edit_order>>

NextForm ==
    \/ \E imo \in ImoNumbers, dep_date \in DepartureDates,
          dep_time \in DepartureTimes, arr_date \in ArrivalDates,
          arr_time \in ArrivalTimes :
           SubmitForm(imo, dep_date, dep_time, arr_date, arr_time)
    \/ \E button \in {"Download JSON", "Download CSV"} : Download(button)

FormSpec == Init /\ [][NextForm]_vars

(***************************************************************************)
(* Helpers of the properties.                                              *)
(***************************************************************************)
\* p is the exact product e * g (e >= 0), established by dividing p by g.
IsProduct(p, e, g) ==
    IF e = 0 \/ g = 0 THEN BigIsZero(p)
    ELSE IF g > 0
        THEN BigDivSmall(p, g) = [q |-> <<e \div Base, e % Base>>, r |-> 0]
        ELSE BigDivSmall(BigSub(<<0, 0>>, p), 0 - g)
                 = [q |-> <<e \div Base, e % Base>>, r |-> 0]

\* Sum of a column of results, from the last row to the first.
RECURSIVE ColumnSumUpTo(_, _)
ColumnSumUpTo(n, col) ==
    IF n = 0 THEN 0 ELSE results[n][col] + ColumnSumUpTo(n - 1, col)

ColumnSum(col) == ColumnSumUpTo(Len(results), col)

Calculated == view \in {"results", "warning"}

RowsOf(fuel) == {i \in 1..Len(results) : results[i]["Fuel Type"] = fuel}

AllFieldsZero(fuel) ==
    \A field \in ConsumptionFields : fuel_inputs[fuel][field] = 0

(***************************************************************************)
(* C1: after a calculation, a fuel whose sailing mass (ME + AE + Other,    *)
(* sailing) and port mass (ME + AE + Other, port) are both 0 has no row in *)
(* the per-fuel result list, and every fuel with a nonzero sailing or port *)
(* mass has exactly one row.                                               *)
(***************************************************************************)
C1_RowIffConsumption ==
    Calculated =>
        \A fuel \in Fuels :
            LET sailing == fuel_inputs[fuel]["ME_Consumption_Sailing"]
                             + fuel_inputs[fuel]["AE_Consumption_Sailing"]
                             + fuel_inputs[fuel]["Other_Consumption_Sailing"]
                port == fuel_inputs[fuel]["ME_Consumption_Port"]
                          + fuel_inputs[fuel]["AE_Consumption_Port"]
                          + fuel_inputs[fuel]["Other_Consumption_Port"]
            IN  IF sailing = 0 /\ port = 0
                   THEN RowsOf(fuel) = {}
                   ELSE Cardinality(RowsOf(fuel)) = 1

\* A calculation in which HFO was consumed at sea only and Biofuel 1 was not
\* consumed: HFO has its row, Biofuel 1 has none.
C1_Witness ==
    /\ view = "results"
    /\ fuel_inputs["HFO"]["ME_Consumption_Sailing"] > 0
    /\ PortMass(fuel_inputs["HFO"]) = 0
    /\ AllFieldsZero("Biofuel 1")
    /\ Cardinality(RowsOf("HFO")) = 1
    /\ RowsOf("Biofuel 1") = {}

(***************************************************************************)
(* C2: in every per-fuel row the sailing EUA count equals the sailing CO2  *)
(* mass and the port EUA count equals the port CO2 mass (1:1), and so the  *)
(* EUA totals equal the CO2 totals.                                        *)
(***************************************************************************)
C2_EuaEqualsCo2 ==
    /\ \A i \in 1..Len(results) :
           /\ results[i]["Sailing EUAs"] = results[i]["Sailing CO2 TtW (MT)"]
           /\ results[i]["Port EUAs"] = results[i]["Port CO2 TtW (MT)"]
    /\ \A i \in 1..Len(locals) :
           /\ locals[i].sailing_eua = locals[i].sailing_co2_mt
           /\ locals[i].port_eua = locals[i].port_co2_mt
    /\ totals # Absent =>
           /\ totals[1]["Total Sailing EUAs"] = totals[1]["Total Sailing CO2 (MT)"]
           /\ totals[1]["Total Port EUAs"] = totals[1]["Total Port CO2 (MT)"]
           /\ totals[1]["Total EUAs (Sailing + Port)"]
                  = totals[1]["Total Sailing CO2 (MT)"]
                      + totals[1]["Total Port CO2 (MT)"]

\* A calculation with a nonzero CO2 mass in both phases.
C2_Witness ==
    /\ totals # Absent
    /\ totals[1]["Total Sailing CO2 (MT)"] > 0
    /\ totals[1]["Total Port CO2 (MT)"] > 0

(***************************************************************************)
(* C3: when the per-fuel result list is not empty, each field of the       *)
(* voyage totals equals the sum of the corresponding column over all rows, *)
(* and 'Total EUAs (Sailing + Port)' equals total sailing EUAs plus total  *)
(* port EUAs.                                                              *)
(***************************************************************************)
C3_TotalsAreColumnSums ==
    results # <<>> =>
        /\ totals # Absent
        /\ totals[1]["Total Sailing Fuel (MT)"] = ColumnSum("Sailing Fuel (MT)")
        /\ totals[1]["Total Port Fuel (MT)"] = ColumnSum("Port Fuel (MT)")
        /\ totals[1]["Total Sailing Energy (TJ)"] = ColumnSum("Sailing Energy (TJ)")
        /\ totals[1]["Total Port Energy (TJ)"] = ColumnSum("Port Energy (TJ)")
        /\ totals[1]["Total Sailing GHG (MT)"] = ColumnSum("Sailing GHG WtW (MT)")
        /\ totals[1]["Total Port GHG (MT)"] = ColumnSum("Port GHG WtW (MT)")
        /\ totals[1]["Total Sailing CO2 (MT)"] = ColumnSum("Sailing CO2 TtW (MT)")
        /\ totals[1]["Total Port CO2 (MT)"] = ColumnSum("Port CO2 TtW (MT)")
        /\ totals[1]["Total Sailing EUAs"] = ColumnSum("Sailing EUAs")
        /\ totals[1]["Total Port EUAs"] = ColumnSum("Port EUAs")
        /\ totals[1]["Total EUAs (Sailing + Port)"]
               = totals[1]["Total Sailing EUAs"] + totals[1]["Total Port EUAs"]

\* Two fuels consumed, one at sea and one in port, both with nonzero figures.
C3_Witness ==
    /\ Len(results) = 2
    /\ results[1]["Sailing EUAs"] > 0
    /\ results[2]["Port EUAs"] > 0
    /\ totals[1]["Total EUAs (Sailing + Port)"]
           = results[1]["Sailing EUAs"] + results[2]["Port EUAs"]

\* Sum of the unrounded energies of the consumed fuels, in 0.1 MJ.
RECURSIVE ConsumedEnergyUpTo(_)
ConsumedEnergyUpTo(n) ==
    IF n = 0 THEN 0
    ELSE locals[n].sailing_energy_mj + locals[n].port_energy_mj
             + ConsumedEnergyUpTo(n - 1)

ConsumedEnergy == ConsumedEnergyUpTo(Len(locals))

(***************************************************************************)
(* C4: GHG intensity is absent when the voyage's total energy is zero, and *)
(* whenever the total energy of the consumed fuels is nonzero the          *)
(* intensity is present and equals                                         *)
(* total_ghg_mt * 1e6 / (total_energy_tj * 1e6).                           *)
(***************************************************************************)
C4_IntensityIffEnergy ==
    view = "results" =>
        /\ ConsumedEnergy = 0 => ghg_intensity = Absent
        /\ ConsumedEnergy # 0 =>
               /\ ghg_intensity # Absent
               /\ ghg_intensity[1].num = 100 * TotalGhg(totals[1])
               /\ ghg_intensity[1].den = TotalEnergy(totals[1])

\* intensity > target, by comparing integer and fractional parts.
IntensityAbove(intensity, target) ==
    LET ip == intensity.num \div intensity.den
        fr == intensity.num % intensity.den
        tp == target \div Base
        tf == target % Base
    IN  ip > tp \/ (ip = tp /\ fr * Base > tf * intensity.den)

IntensityEquals(intensity, target) ==
    /\ intensity.num \div intensity.den = target \div Base
    /\ (intensity.num % intensity.den) * Base = (target % Base) * intensity.den

(***************************************************************************)
(* C5: whenever GHG intensity is computed, the verdict is non-compliant if *)
(* and only if intensity > target; at intensity = target the verdict is    *)
(* compliant and no penalty is produced.                                   *)
(***************************************************************************)
C5_NonCompliantIffAboveTarget ==
    ghg_intensity # Absent =>
        /\ compliance \in {"compliant", "non-compliant"}
        /\ compliance = "non-compliant"
               <=> IntensityAbove(ghg_intensity[1], ghg_target)
        /\ IntensityEquals(ghg_intensity[1], ghg_target) =>
               /\ compliance = "compliant"
               /\ penalty_factor = Absent

\* A calculation whose intensity is exactly the target.
C5_Witness ==
    /\ ghg_intensity # Absent
    /\ IntensityEquals(ghg_intensity[1], ghg_target)
    /\ compliance = "compliant"

(***************************************************************************)
(* C6: for every non-compliant calculation the estimated penalty equals    *)
(* gap * total_energy_mj * penalty_rate, with total_energy_mj the total TJ *)
(* times 1e6 and penalty_rate = 2400 / 1e6 per MJ, and it is strictly      *)
(* positive.  With gap = gapnum / (total_energy * 1e4) the penalty in      *)
(* 1e-6 EUR is gapnum * 24, where gapnum + target * total_energy is the    *)
(* intensity numerator times 1e4.                                          *)
(***************************************************************************)
C6_PenaltyFormula ==
    compliance = "non-compliant" =>
        /\ penalty_factor # Absent
        /\ compliance_gap[1].den = TotalEnergy(totals[1])
        /\ BigAdd(compliance_gap[1].num,
                  BigMul(ghg_target, TotalEnergy(totals[1])))
               = <<100 * TotalGhg(totals[1]), 0>>
        /\ BigDivSmall(penalty_factor[1], PenaltyRate \div 100)
               = [q |-> compliance_gap[1].num, r |-> 0]
        /\ BigIsPositive(penalty_factor[1])

\* HFO, 100 t at sea, against the default target: 91.74 > 89.3368.
C6_Witness ==
    /\ compliance = "non-compliant"
    /\ TotalEnergy(totals[1]) = 40500
    /\ ghg_target = 893368
    /\ penalty_factor # Absent

(***************************************************************************)
(* C7: for every fuel and each phase, energy_mj = lcv * mass * 1e6,        *)
(* ghg_mt = energy_mj * ghg_wtw / 1e6 and co2_mt = energy_mj * co2_ttw /   *)
(* 1e6, the GHG and CO2 formulas taking the megajoule energy and never the *)
(* terajoule figure; HFO with 100 t sailing gives 4,050,000 MJ,            *)
(* 371.547 t GHG and 311.4045 t CO2.                                       *)
(***************************************************************************)
C7_FormulaChain ==
    \A i \in 1..Len(locals) :
        LET l == locals[i]
            factor == emission_factors[l.fuel]
        IN  /\ l.sailing_energy_mj = factor.LCV_MJ_g * l.sailing_mass
            /\ l.port_energy_mj = factor.LCV_MJ_g * l.port_mass
            /\ IsProduct(l.sailing_ghg_mt, l.sailing_energy_mj,
                         factor.GHG_WtW_gCO2e_MJ)
            /\ IsProduct(l.port_ghg_mt, l.port_energy_mj,
                         factor.GHG_WtW_gCO2e_MJ)
            /\ IsProduct(l.sailing_co2_mt, l.sailing_energy_mj,
                         factor.CO2_TtW_gCO2e_MJ)
            /\ IsProduct(l.port_co2_mt, l.port_energy_mj,
                         factor.CO2_TtW_gCO2e_MJ)
            /\ (l.fuel = "HFO" /\ l.sailing_mass = 100000) =>
                   /\ l.sailing_energy_mj = 40500000
                   /\ l.sailing_ghg_mt = <<37154700, 0>>
                   /\ l.sailing_co2_mt = <<31140450, 0>>

\* HFO with 100 t at sea and nothing in port has been calculated.
C7_Witness ==
    \E i \in 1..Len(locals) :
        /\ locals[i].fuel = "HFO"
        /\ locals[i].sailing_mass = 100000
        /\ locals[i].port_mass = 0
        /\ results[i]["Sailing GHG WtW (MT)"] = 37155

(***************************************************************************)
(* C8: the sailing mass used by the calculation is exactly the sum of the  *)
(* three sailing fields (ME, AE, Other) and the port mass exactly the sum  *)
(* of the three port fields, and a calculation changes no input field.     *)
(***************************************************************************)
C8_MassesArePhaseSums ==
    /\ [](\A i \in 1..Len(locals) :
              LET vals == fuel_inputs[locals[i].fuel]
              IN  /\ locals[i].sailing_mass
                         = vals["ME_Consumption_Sailing"]
                             + vals["AE_Consumption_Sailing"]
                             + vals["Other_Consumption_Sailing"]
                  /\ locals[i].port_mass
                         = vals["ME_Consumption_Port"]
                             + vals["AE_Consumption_Port"]
                             + vals["Other_Consumption_Port"])
    /\ [][view' # "info" => fuel_inputs' = fuel_inputs]_vars

\* A fuel consumed in both phases, with different masses.
C8_Witness ==
    \E i \in 1..Len(locals) :
        /\ locals[i].sailing_mass > 0
        /\ locals[i].port_mass > 0
        /\ locals[i].sailing_mass # locals[i].port_mass

\* The consumption record of a fuel with every field doubled.
Doubled(vals) == [field \in ConsumptionFields |-> 2 * vals[field]]

ReportedFigures ==
    {"Sailing Energy (TJ)", "Port Energy (TJ)",
     "Sailing GHG WtW (MT)", "Port GHG WtW (MT)",
     "Sailing CO2 TtW (MT)", "Port CO2 TtW (MT)",
     "Sailing EUAs", "Port EUAs"}

(***************************************************************************)
(* C9 as stated: the reported energy, GHG, CO2 and EUA figures for mass    *)
(* 2 * m are exactly twice the figures reported for mass m.                *)
(***************************************************************************)
C9_ReportedFiguresDouble ==
    \A i \in 1..Len(locals) :
        LET fuel == locals[i].fuel
            twice == ResultRow(FuelLocals(fuel, Doubled(fuel_inputs[fuel]),
                                          emission_factors[fuel]))
        IN  \A col \in ReportedFigures : twice[col] = 2 * results[i][col]

(***************************************************************************)
(* C9 as amended: the unrounded energy, GHG, CO2 and EUA figures for mass  *)
(* 2 * m are exactly twice those for mass m, and each reported (rounded)   *)
(* figure for 2 * m differs from twice the figure reported for m by at     *)
(* most one unit of its last reported decimal place.                       *)
(***************************************************************************)
C9_UnroundedFiguresDouble ==
    \A i \in 1..Len(locals) :
        LET l == locals[i]
            l2 == FuelLocals(l.fuel, Doubled(fuel_inputs[l.fuel]),
                             emission_factors[l.fuel])
            twice == ResultRow(l2)
        IN  /\ l2.sailing_energy_mj = 2 * l.sailing_energy_mj
            /\ l2.port_energy_mj = 2 * l.port_energy_mj
            /\ l2.sailing_ghg_mt = BigAdd(l.sailing_ghg_mt, l.sailing_ghg_mt)
            /\ l2.port_ghg_mt = BigAdd(l.port_ghg_mt, l.port_ghg_mt)
            /\ l2.sailing_co2_mt = BigAdd(l.sailing_co2_mt, l.sailing_co2_mt)
            /\ l2.port_co2_mt = BigAdd(l.port_co2_mt, l.port_co2_mt)
            /\ l2.sailing_eua = BigAdd(l.sailing_eua, l.sailing_eua)
            /\ l2.port_eua = BigAdd(l.port_eua, l.port_eua)
            /\ \A col \in ReportedFigures :
                   twice[col] - 2 * results[i][col] \in {-1, 0, 1}

\* A fuel whose reported energy for the doubled mass is not twice the
\* reported energy: 1 kg of HFO reports 0.0000 TJ, 2 kg report 0.0001 TJ.
C9_Witness ==
    \E i \in 1..Len(locals) :
        /\ locals[i].sailing_energy_mj > 0
        /\ results[i]["Sailing Energy (TJ)"] = 0
        /\ ResultRow(FuelLocals(locals[i].fuel,
                                Doubled(fuel_inputs[locals[i].fuel]),
                                emission_factors[locals[i].fuel]))
               ["Sailing Energy (TJ)"] = 1

(***************************************************************************)
(* C10: a fuel with nonzero consumption whose emission factor has a        *)
(* non-positive LCV is rejected: no per-fuel row with zero or negative     *)
(* energy is produced for it.                                              *)
(***************************************************************************)
C10_NonPositiveLcvRejected ==
    \A i \in 1..Len(results) :
        emission_factors[results[i]["Fuel Type"]].LCV_MJ_g > 0

(***************************************************************************)
(* C11: if a consumption record references a fuel type that is absent from *)
(* the emission-factor table, the calculation surfaces an error for it     *)
(* instead of silently skipping it, whether that fuel's consumption is     *)
(* zero or not.                                                            *)
(***************************************************************************)
C11_MissingFactorSurfaces ==
    view \in {"results", "warning", "exception"} =>
        /\ (\E fuel \in DOMAIN fuel_inputs : fuel \notin DOMAIN emission_factors)
               <=> error = "KeyError"
        /\ error = "KeyError" => view = "exception" /\ results = <<>>
        /\ error = "none" => view \in {"results", "warning"}

\* The fuel without a factor has no consumption, another fuel has some, and
\* the calculation stopped with the error.
C11_Witness ==
    /\ "HFO" \notin DOMAIN emission_factors
    /\ AllFieldsZero("HFO")
    /\ ~AllFieldsZero("Biofuel 1")
    /\ "Biofuel 1" \in DOMAIN emission_factors
    /\ error = "KeyError"
    /\ view = "exception"

(***************************************************************************)
(* C12: a calculation never mutates the emission-factor table: for every   *)
(* fuel the LCV, GHG WtW and CO2 TtW factors after the calculation equal   *)
(* their values before it, whatever the consumption inputs and whatever    *)
(* the outcome (results or warning).                                       *)
(***************************************************************************)
C12_CalculationKeepsTable ==
    [][view' \in {"results", "warning", "exception"} =>
          \A fuel \in Fuels :
              /\ emission_factors'[fuel].LCV_MJ_g = emission_factors[fuel].LCV_MJ_g
              /\ emission_factors'[fuel].GHG_WtW_gCO2e_MJ =
                     emission_factors[fuel].GHG_WtW_gCO2e_MJ
              /\ emission_factors'[fuel].CO2_TtW_gCO2e_MJ =
                     emission_factors[fuel].CO2_TtW_gCO2e_MJ]_vars

\* A calculation with a row for Biofuel 1 has run on a table whose Biofuel 1
\* entry was overridden, and the entry is still the overridden one.
C12_Witness ==
    /\ view = "results"
    /\ \E i \in 1..Len(locals) : locals[i].fuel = "Biofuel 1"
    /\ emission_factors["Biofuel 1"] # DefaultEmissionFactors["Biofuel 1"]
    /\ emission_factors["Biofuel 1"] = Factor(bf1_lcv, bf1_ghg_wtw, bf1_co2_ttw)

(***************************************************************************)
(* C13: the distance-based metrics (fuel per nm, CO2 per nm) are omitted   *)
(* exactly when distance is 0 and the cargo-based metric (CO2 per ton of   *)
(* cargo) exactly when cargo is 0; no division by zero occurs, and when    *)
(* the denominator is positive each metric is the corresponding total      *)
(* divided by it, times 1000.                                              *)
(***************************************************************************)
C13_EfficiencyMetrics ==
    view = "results" =>
        /\ distance = 0 => fuel_efficiency = Absent /\ co2_efficiency = Absent
        /\ cargo_carried = 0 => cargo_efficiency = Absent
        /\ distance > 0 =>
              /\ fuel_efficiency =
                     Some([num |-> 10 * (ColumnSum("Sailing Fuel (MT)")
                                         + ColumnSum("Port Fuel (MT)")),
                           den |-> distance])
              /\ co2_efficiency =
                     Some([num |-> 10 * (ColumnSum("Sailing CO2 TtW (MT)")
                                         + ColumnSum("Port CO2 TtW (MT)")),
                           den |-> distance])
        /\ cargo_carried > 0 =>
              cargo_efficiency =
                  Some([num |-> 10 * (ColumnSum("Sailing CO2 TtW (MT)")
                                         + ColumnSum("Port CO2 TtW (MT)")),
                        den |-> cargo_carried])
        /\ \A m \in {fuel_efficiency, co2_efficiency, cargo_efficiency} :
              m # Absent => m[1].den # 0

\* Results with distance 0 and cargo carried: the per-nm metrics are
\* omitted while the per-cargo metric is shown with a non-zero value.
C13_Witness ==
    /\ view = "results"
    /\ distance = 0
    /\ cargo_carried > 0
    /\ fuel_efficiency = Absent
    /\ cargo_efficiency # Absent
    /\ cargo_efficiency[1].num > 0

(***************************************************************************)
(* C14: the per-fuel result list holds the fuels with nonzero consumption  *)
(* in the iteration order of the consumption map (the order of the keys    *)
(* of the emission-factor table), whatever the order in which the user     *)
(* edited the consumption values, and no fuel appears twice.               *)
(***************************************************************************)
IndexInFuelList(fuel) == CHOOSE i \in 1..Len(FUEL_LIST) : FUEL_LIST[i] = fuel

C14_RowsInMapOrder ==
    view = "results" =>
        /\ \A i, j \in 1..Len(results) :
              i < j => IndexInFuelList(results[i]["Fuel Type"])
                           < IndexInFuelList(results[j]["Fuel Type"])
        /\ {results[i]["Fuel Type"] : i \in 1..Len(results)}
               = {fuel \in Fuels :
                     ~SkipFuel(SailingMass(fuel_inputs[fuel]),
                               PortMass(fuel_inputs[fuel]))}

\* The user entered Biofuel 1 before HFO; the HFO row still comes first.
C14_Witness ==
    /\ view = "results"
    /\ edit_order = <<"Biofuel 1", "HFO">>
    /\ Len(results) = 2
    /\ results[1]["Fuel Type"] = "HFO"
    /\ results[2]["Fuel Type"] = "Biofuel 1"

(***************************************************************************)
(* C15: through any sequence of UI operations the emission-factor table    *)
(* changes only at an "Update Biofuel 1" click and only in its "Biofuel 1" *)
(* entry, which takes the widget values; every other fuel keeps its        *)
(* default factors; and a calculation uses the committed Biofuel 1 entry,  *)
(* not widget values that were edited but not committed.                   *)
(***************************************************************************)
Bf1Widgets == Factor(bf1_lcv, bf1_ghg_wtw, bf1_co2_ttw)

OtherFuelsAtDefaults ==
    \A fuel \in Fuels \ {"Biofuel 1"} :
        emission_factors[fuel] = DefaultEmissionFactors[fuel]

TableChangeIsUpdateClick ==
    emission_factors' # emission_factors =>
        /\ emission_factors' =
               [emission_factors EXCEPT !["Biofuel 1"] = Bf1Widgets]
        /\ UNCHANGED <<bf1_lcv, bf1_ghg_wtw, bf1_co2_ttw, fuel_inputs,
                       ghg_target, distance, cargo_carried, edits>>
        /\ view' = "info"

CalculationUsesCommittedEntry ==
    view = "results" =>
        \A i \in 1..Len(locals) :
            locals[i].fuel = "Biofuel 1" =>
                locals[i] = FuelLocals("Biofuel 1", fuel_inputs["Biofuel 1"],
                                       emission_factors["Biofuel 1"])

C15_TableChangesOnlyAtUpdate ==
    /\ [](OtherFuelsAtDefaults /\ CalculationUsesCommittedEntry)
    /\ [][TableChangeIsUpdateClick]_vars

\* A calculation with Biofuel 1 consumed ran while the LCV widget held a
\* value that was not committed: the energy is that of the table's LCV.
C15_Witness ==
    /\ view = "results"
    /\ bf1_lcv # emission_factors["Biofuel 1"].LCV_MJ_g
    /\ \E i \in 1..Len(locals) :
          /\ locals[i].fuel = "Biofuel 1"
          /\ locals[i].sailing_mass > 0
          /\ locals[i].sailing_energy_mj =
                 calc_energy_mt(locals[i].sailing_mass,
                                emission_factors["Biofuel 1"].LCV_MJ_g)
          /\ locals[i].sailing_energy_mj #
                 calc_energy_mt(locals[i].sailing_mass, bf1_lcv)

(***************************************************************************)
(* C16: a submission of the voyage form reaches the captured state (data   *)
(* summarised and offered for JSON/CSV download) only if the IMO number    *)
(* consists of exactly 7 digits and each of departure date, arrival date,  *)
(* departure time and arrival time is empty or well-formed (dd/mm/yyyy,    *)
(* hh:mm); otherwise the error list is shown and nothing is captured or    *)
(* offered for download.                                                   *)
(***************************************************************************)
SevenDigits(text) ==
    Len(text) = 7 /\ \A i \in 1..7 : IsDigitChar(text[i])

\* Two digits, slash, two digits, slash, four digits.
IsDdMmYyyy(text) ==
    /\ Len(text) = 10
    /\ text[3] = "/" /\ text[6] = "/"
    /\ \A i \in {1, 2, 4, 5, 7, 8, 9, 10} : IsDigitChar(text[i])

\* Two digits, colon, two digits.
IsHhMm(text) ==
    /\ Len(text) = 5
    /\ text[3] = ":"
    /\ \A i \in {1, 2, 4, 5} : IsDigitChar(text[i])

FieldsWellFormed ==
    /\ SevenDigits(imo_number)
    /\ \A date \in {departure_date, arrival_date} :
          date = <<>> \/ IsDdMmYyyy(date)
    /\ \A time \in {departure_time, arrival_time} :
          time = <<>> \/ IsHhMm(time)

C16_CapturedOnlyIfWellFormed ==
    form_view \in {"errors", "captured"} =>
        /\ form_view = "captured" => FieldsWellFormed
        /\ ~FieldsWellFormed =>
              /\ form_view = "errors"
              /\ errors # <<>>
              /\ voyage_data = Absent
              /\ offered = {}

====
